---- MODULE Spec2Model ----
(***************************************************************************)
(* Model of the m3d quaternion / vector / matrix library.                  *)
(*                                                                         *)
(* The library is generic over F: Float.  A scalar is modelled as an       *)
(* extended rational <<n, d>> in lowest terms with d >= 0: d > 0 is the    *)
(* finite value n/d, <<1,0>> and <<-1,0>> are +Inf and -Inf, <<0,0>> is    *)
(* NaN.  The values sqrt, sin and cos produce are rational multiples of a  *)
(* square root: <<n, d, k>> is (n/d) * sqrt(k), n # 0, d > 0, k >= 2       *)
(* squarefree.  Arithmetic is exact (no rounding); sums, differences and   *)
(* products of the integer and half-integer inputs are also exact in       *)
(* IEEE-754.  The sign of zero is not modelled.                            *)
(*                                                                         *)
(* The state is a caller's workspace: two quaternion operands, a vector    *)
(* operand, a matrix operand, the name of the last library call (op), its  *)
(* arguments that are not operands of the workspace (arg: angles, an index, *)
(* a written value, a second matrix; empty for a call that has none) and   *)
(* the value it returned (res).                                            *)
(***************************************************************************)
EXTENDS Integers, Sequences, FiniteSets, TLC

VARIABLES q1, q2, vec, mat, op, arg, res, chain, pow_stack, pow_state

vars == <<q1, q2, vec, mat, op, arg, res, chain, pow_stack, pow_state>>

(***************************************************************************)
(* Bounds of the model.                                                    *)
(***************************************************************************)
\* longest sequence of successive rotate_vector calls on one vector
MaxChain == 2
\* number of pow frames the stack holds before the process aborts
MaxStack == 3

(***************************************************************************)
(* Scalars: F: Float as extended rationals.                                *)
(***************************************************************************)
Sign(n) == IF n > 0 THEN 1 ELSE IF n < 0 THEN -1 ELSE 0

Abs(n) == IF n < 0 THEN -n ELSE n

RECURSIVE GCD(_, _)
GCD(a, b) == IF b = 0 THEN a ELSE GCD(b, a % b)

\* lowest terms, d >= 0; a zero denominator keeps only the sign of n
Reduce(n, d) ==
    IF d = 0 THEN <<Sign(n), 0>>
    ELSE LET s == IF d < 0 THEN -1 ELSE 1
             g == GCD(Abs(n), Abs(d))
         IN  <<(s * n) \div g, (s * d) \div g>>

\* F::from(k).unwrap(), F::zero(), F::one() for an integer literal k
F(k) == <<k, 1>>

NaN == <<0, 0>>

\* the rational factor and the radicand of a scalar
Rat(a) == <<a[1], a[2]>>

Radicand(a) == IF Len(a) = 3 THEN a[3] ELSE 1

\* the scalar r * sqrt(k) for an extended rational r and a squarefree k >= 1
Surd(r, k) == IF k = 1 \/ r[1] = 0 \/ r[2] = 0 THEN r ELSE <<r[1], r[2], k>>

\* a real value that is neither rational nor a rational multiple of one
\* square root: no operation below accepts it, so an evaluation that meets
\* it stops instead of going on with a wrong value
Unrepresentable == "unrepresentable"

\* factors are cancelled before multiplying, so intermediate values stay small
RatMul(a, b) ==
    IF a[2] = 0 \/ b[2] = 0 THEN Reduce(a[1] * b[1], 0)
    ELSE LET g1 == GCD(Abs(a[1]), b[2])
             g2 == GCD(Abs(b[1]), a[2])
         IN  Reduce((a[1] \div g1) * (b[1] \div g2),
                    (a[2] \div g2) * (b[2] \div g1))

RatAdd(a, b) ==
    IF a[2] = 0 /\ b[2] = 0
    THEN (IF a = b THEN a ELSE NaN)
    ELSE IF a[2] = 0 THEN a
    ELSE IF b[2] = 0 THEN b
    ELSE LET g == GCD(a[2], b[2])
         IN  Reduce(a[1] * (b[2] \div g) + b[1] * (a[2] \div g),
                    (a[2] \div g) * b[2])

\* sqrt(j) * sqrt(k) = g * sqrt((j/g) * (k/g)) for squarefree j, k, g = gcd(j, k)
FMul(a, b) ==
    LET g == GCD(Radicand(a), Radicand(b))
    IN  Surd(RatMul(RatMul(Rat(a), Rat(b)), <<g, 1>>),
             (Radicand(a) \div g) * (Radicand(b) \div g))

FAdd(a, b) ==
    IF Radicand(a) = Radicand(b) THEN Surd(RatAdd(Rat(a), Rat(b)), Radicand(a))
    ELSE IF a = <<0, 1>> THEN b
    ELSE IF b = <<0, 1>> THEN a
    ELSE IF a[2] = 0 \/ b[2] = 0 THEN RatAdd(Rat(a), Rat(b))
    ELSE Unrepresentable

FNeg(a) == [a EXCEPT ![1] = -a[1]]

FSub(a, b) == FAdd(a, FNeg(b))

\* 1 / (r * sqrt(k)) = (1 / (r * k)) * sqrt(k)
FRecip(a) ==
    IF Len(a) = 3 THEN Surd(Reduce(a[2], a[1] * a[3]), a[3])
    ELSE IF a[1] < 0 THEN <<-a[2], -a[1]>> ELSE <<a[2], a[1]>>

FDiv(a, b) == FMul(a, FRecip(b))

\* the largest s with s * s dividing m, searched from i upwards
RECURSIVE SquarePart(_, _)
SquarePart(m, i) ==
    IF i * i > m THEN 1
    ELSE IF m % (i * i) = 0 THEN i * SquarePart(m \div (i * i), i)
    ELSE SquarePart(m, i + 1)

\* sqrt(n/d) = sqrt(n * d) / d = (s/d) * sqrt(k) with n * d = s * s * k;
\* sqrt of a negative value or of NaN is NaN, sqrt(+Inf) = +Inf
FSqrt(a) ==
    IF Len(a) = 3 THEN Unrepresentable
    ELSE IF a[1] < 0 THEN NaN
    ELSE IF a[1] = 0 \/ a[2] = 0 THEN a
    ELSE LET s == SquarePart(a[1] * a[2], 2)
         IN  Surd(Reduce(s, a[2]), (a[1] * a[2]) \div (s * s))

\* An angle in radians is kept as its rational multiple of pi, so to_radians
\* (degrees * pi / 180) divides by 180.
to_radians(a) == FDiv(a, F(180))

\* the number e in 0..7 with x * pi = e * pi/4 modulo 2 pi, or -1 when x * pi
\* is no multiple of pi/4
Eighth(x) ==
    IF Len(x) = 2 /\ x[2] \in {1, 2, 4} THEN (x[1] * (4 \div x[2])) % 8 ELSE -1

HalfSqrt2 == <<1, 2, 2>>

\* cos and sin at the multiples of pi/4, where their values are 0, 1, -1 or
\* plus or minus sqrt(2)/2
FCos(x) ==
    CASE Eighth(x) \in {0}    -> F(1)
      [] Eighth(x) \in {1, 7} -> HalfSqrt2
      [] Eighth(x) \in {2, 6} -> F(0)
      [] Eighth(x) \in {3, 5} -> FNeg(HalfSqrt2)
      [] Eighth(x) \in {4}    -> F(-1)
      [] OTHER                -> Unrepresentable

FSin(x) ==
    CASE Eighth(x) \in {0, 4} -> F(0)
      [] Eighth(x) \in {1, 3} -> HalfSqrt2
      [] Eighth(x) \in {2}    -> F(1)
      [] Eighth(x) \in {5, 7} -> FNeg(HalfSqrt2)
      [] Eighth(x) \in {6}    -> F(-1)
      [] OTHER                -> Unrepresentable

\* ln, and cos and sin of a plain number of radians, at the arguments where
\* the value is rational: ln(1) = 0, ln(0) = -Inf, cos(0) = 1, sin(0) = 0;
\* a NaN argument, a negative argument of ln and an infinite argument of cos
\* and sin give NaN
FLn(x) ==
    IF x = NaN \/ x[1] < 0 THEN NaN
    ELSE IF x[2] = 0 THEN x
    ELSE IF x = F(0) THEN <<-1, 0>>
    ELSE IF x = F(1) THEN F(0)
    ELSE Unrepresentable

FCosOfNumber(x) ==
    IF x[2] = 0 THEN NaN ELSE IF x = F(0) THEN F(1) ELSE Unrepresentable

FSinOfNumber(x) ==
    IF x[2] = 0 THEN NaN ELSE IF x = F(0) THEN F(0) ELSE Unrepresentable

\* Float's == : NaN is not equal to anything
FEq(a, b) == a # NaN /\ b # NaN /\ a = b

(***************************************************************************)
(* Vector3 (src/src/vectors.rs): the array v of three scalars.             *)
(***************************************************************************)
Vector3_new(x, y, z) == <<x, y, z>>

Vector3_zero == <<F(0), F(0), F(0)>>

Vector3_sum(a, b) == <<FAdd(a[1], b[1]), FAdd(a[2], b[2]), FAdd(a[3], b[3])>>

Vector3_difference(a, b) ==
    <<FSub(a[1], b[1]), FSub(a[2], b[2]), FSub(a[3], b[3])>>

Vector3_product_scalar(a, s) == <<FMul(a[1], s), FMul(a[2], s), FMul(a[3], s)>>

Vector3_quotient_scalar(a, s) == <<FDiv(a[1], s), FDiv(a[2], s), FDiv(a[3], s)>>

Vector3_dot(a, b) ==
    FAdd(FAdd(FMul(a[1], b[1]), FMul(a[2], b[2])), FMul(a[3], b[3]))

Vector3_cross(a, b) ==
    << FSub(FMul(a[2], b[3]), FMul(a[3], b[2])),
       FSub(FMul(a[3], b[1]), FMul(a[1], b[3])),
       FSub(FMul(a[1], b[2]), FMul(a[2], b[1])) >>

Vector3_opposite(a) == <<FNeg(a[1]), FNeg(a[2]), FNeg(a[3])>>

Vector3_eq(a, b) == FEq(a[1], b[1]) /\ FEq(a[2], b[2]) /\ FEq(a[3], b[3])

\* result[i] = result[i] + self[j] * other[j][i], j = 0, 1, 2, from zero
product_matrix_component(a, m, i) ==
    FAdd(FAdd(FAdd(F(0), FMul(a[1], m[1][i])), FMul(a[2], m[2][i])),
         FMul(a[3], m[3][i]))

\* a slip: other[i][j] read in place of other[j][i] (the matrix times a column)
product_matrix_by_rows(a, m) ==
    << FAdd(FAdd(FAdd(F(0), FMul(a[1], m[1][1])), FMul(a[2], m[1][2])),
            FMul(a[3], m[1][3])),
       FAdd(FAdd(FAdd(F(0), FMul(a[1], m[2][1])), FMul(a[2], m[2][2])),
            FMul(a[3], m[2][3])),
       FAdd(FAdd(FAdd(F(0), FMul(a[1], m[3][1])), FMul(a[2], m[3][2])),
            FMul(a[3], m[3][3])) >>

Vector3_product_matrix(a, m) ==
    << product_matrix_component(a, m, 1),
       product_matrix_component(a, m, 2),
       product_matrix_component(a, m, 3) >>

(***************************************************************************)
(* Matrix3 (src/src/matrices.rs): the array m of three row vectors.        *)
(* Rust indices 0..2 are the TLA+ indices 1..3.                            *)
(***************************************************************************)
Matrix3_new(m00, m01, m02, m10, m11, m12, m20, m21, m22) ==
    << Vector3_new(m00, m01, m02),
       Vector3_new(m10, m11, m12),
       Vector3_new(m20, m21, m22) >>

Matrix3_identity ==
    Matrix3_new(F(1), F(0), F(0), F(0), F(1), F(0), F(0), F(0), F(1))

\* res[i][j] = res[i][j] + lhs[i][k] * rhs[k][j], k = 0, 1, 2, from zero
mul_component(lhs, rhs, i, j) ==
    FAdd(FAdd(FAdd(F(0), FMul(lhs[i][1], rhs[1][j])), FMul(lhs[i][2], rhs[2][j])),
         FMul(lhs[i][3], rhs[3][j]))

mul_row(lhs, rhs, i) ==
    << mul_component(lhs, rhs, i, 1),
       mul_component(lhs, rhs, i, 2),
       mul_component(lhs, rhs, i, 3) >>

\* a slip: the operands of the product are exchanged
mul_swaps_operands(lhs, rhs) ==
    <<mul_row(rhs, lhs, 1), mul_row(rhs, lhs, 2), mul_row(rhs, lhs, 3)>>

Matrix3_mul(lhs, rhs) ==
    <<mul_row(lhs, rhs, 1), mul_row(lhs, rhs, 2), mul_row(lhs, rhs, 3)>>

\* div: its loop body is `res[i][j] = res[i][j] + lhs[i][k] * rhs[k][j]`
div_component(lhs, rhs, i, j) ==
    FAdd(FAdd(FAdd(F(0), FMul(lhs[i][1], rhs[1][j])), FMul(lhs[i][2], rhs[2][j])),
         FMul(lhs[i][3], rhs[3][j]))

div_row(lhs, rhs, i) ==
    << div_component(lhs, rhs, i, 1),
       div_component(lhs, rhs, i, 2),
       div_component(lhs, rhs, i, 3) >>

Matrix3_div(lhs, rhs) ==
    <<div_row(lhs, rhs, 1), div_row(lhs, rhs, 2), div_row(lhs, rhs, 3)>>

\* the index pairs of the loops `for i in 0..3 { for j in 0..3 {`, in order
LoopPairs ==
    << <<1, 1>>, <<1, 2>>, <<1, 3>>,
       <<2, 1>>, <<2, 2>>, <<2, 3>>,
       <<3, 1>>, <<3, 2>>, <<3, 3>> >>

\* the body of transpose's loop, run over the pairs from position k on
RECURSIVE transpose_loop(_, _)
transpose_loop(m, k) ==
    IF k > Len(LoopPairs) THEN m
    ELSE LET i == LoopPairs[k][1]
             j == LoopPairs[k][2]
         IN  IF i > j
             THEN LET tmp == m[i][j]
                      m1  == [m EXCEPT ![i][j] = m[j][i]]
                      m2  == [m1 EXCEPT ![j][i] = tmp]
                  IN  transpose_loop(m2, k + 1)
             ELSE transpose_loop(m, k + 1)

\* a slip: `if i != j`, so every off-diagonal pair is swapped twice
transpose_swaps_twice(m) == transpose_loop(transpose_loop(m, 1), 1)

Matrix3_transpose(m) == transpose_loop(m, 1)

\* res = res + m[0][i] * m[1][(i + 1) % 3] * m[2][(i + 2) % 3]
\*     - m[0][i] * m[1][(i + 2) % 3] * m[2][(i + 1) % 3]   for i = 0, 1, 2
RECURSIVE determinant_loop(_, _, _)
determinant_loop(m, r, i) ==
    IF i > 2 THEN r
    ELSE LET a  == m[1][i + 1]
             r1 == FAdd(r, FMul(FMul(a, m[2][((i + 1) % 3) + 1]),
                                m[3][((i + 2) % 3) + 1]))
             r2 == FSub(r1, FMul(FMul(a, m[2][((i + 2) % 3) + 1]),
                                 m[3][((i + 1) % 3) + 1]))
         IN  determinant_loop(m, r2, i + 1)

\* a slip: the product of the diagonal only
determinant_of_diagonal(m) == FMul(FMul(m[1][1], m[2][2]), m[3][3])

Matrix3_determinant(m) == determinant_loop(m, F(0), 0)

\* res[i][j] = res[i][j] / det for every entry
divide_entries(r, det) ==
    [i \in 1..3 |-> [j \in 1..3 |-> FDiv(r[i][j], det)]]

\* an inverse without the early return for a zero determinant
inverse_divides_singular(m) ==
    LET r == divide_entries(transpose_loop(Matrix3_identity, 1),
                            Matrix3_determinant(m))
    IN  <<<<r[1][1], r[1][2], r[1][3]>>,
          <<r[2][1], r[2][2], r[2][3]>>,
          <<r[3][1], r[3][2], r[3][3]>>>>

\* inverse: the first loop swaps m[i][j] with m[j][i] and res[i][j] with
\* res[j][i] for i > j, where res starts as the identity; m is not read
\* again, and res divided by det is returned
Matrix3_inverse(m) ==
    LET det == Matrix3_determinant(m)
    IN  IF FEq(det, F(0)) THEN Matrix3_identity
        ELSE LET m_swapped == transpose_loop(m, 1)
                 r_swapped == transpose_loop(Matrix3_identity, 1)
                 r         == divide_entries(r_swapped, det)
             IN  <<<<r[1][1], r[1][2], r[1][3]>>,
                   <<r[2][1], r[2][2], r[2][3]>>,
                   <<r[3][1], r[3][2], r[3][3]>>>>

(***************************************************************************)
(* Matrix4 (src/src/matrices.rs): the array m of four Vector4 rows.        *)
(***************************************************************************)
Vector4_new(x, y, z, w) == <<x, y, z, w>>

Vector4_eq(a, b) ==
    FEq(a[1], b[1]) /\ FEq(a[2], b[2]) /\ FEq(a[3], b[3]) /\ FEq(a[4], b[4])

Matrix4_identity ==
    << Vector4_new(F(1), F(0), F(0), F(0)),
       Vector4_new(F(0), F(1), F(0), F(0)),
       Vector4_new(F(0), F(0), F(1), F(0)),
       Vector4_new(F(0), F(0), F(0), F(1)) >>

\* impl PartialEq for Matrix4: m[0], m[1] and m[2] are compared
Matrix4_eq(a, b) ==
    Vector4_eq(a[1], b[1]) /\ Vector4_eq(a[2], b[2]) /\ Vector4_eq(a[3], b[3])

(***************************************************************************)
(* Quaternion (src/src/quaternion.rs): real part w, vector part v.         *)
(***************************************************************************)
Quaternion_new(w, v) == [w |-> w, v |-> Vector3_new(v[1], v[2], v[3])]

Quaternion_identity == [w |-> F(1), v |-> Vector3_zero]

\* a slip: the sum leaves out the z components
sum_drops_z(a, b) ==
    [w |-> FAdd(a.w, b.w),
     v |-> <<FAdd(a.v[1], b.v[1]), FAdd(a.v[2], b.v[2]), a.v[3]>>]

Quaternion_sum(a, b) ==
    [w |-> FAdd(a.w, b.w), v |-> Vector3_sum(a.v, b.v)]

Quaternion_difference(a, b) ==
    [w |-> FSub(a.w, b.w), v |-> Vector3_difference(a.v, b.v)]

\* a slip: the z component is not negated
conjugate_keeps_z(a) == [w |-> a.w, v |-> <<FNeg(a.v[1]), FNeg(a.v[2]), a.v[3]>>]

Quaternion_conjugate(a) == [w |-> a.w, v |-> Vector3_opposite(a.v)]

\* a slip: v2.cross(v1) in place of v1.cross(v2)
product_swaps_cross(a, b) ==
    [ w |-> FSub(FMul(a.w, b.w), Vector3_dot(a.v, b.v)),
      v |-> Vector3_sum(
                Vector3_sum(Vector3_cross(b.v, a.v),
                            Vector3_product_scalar(a.v, b.w)),
                Vector3_product_scalar(b.v, a.w)) ]

\* a slip: the dot product is added to w1 * w2
product_adds_dot(a, b) ==
    [ w |-> FAdd(FMul(a.w, b.w), Vector3_dot(a.v, b.v)),
      v |-> Vector3_sum(
                Vector3_sum(Vector3_cross(a.v, b.v),
                            Vector3_product_scalar(a.v, b.w)),
                Vector3_product_scalar(b.v, a.w)) ]

\* a slip: the term v2 * w1 is left out
product_drops_term(a, b) ==
    [ w |-> FSub(FMul(a.w, b.w), Vector3_dot(a.v, b.v)),
      v |-> Vector3_sum(Vector3_cross(a.v, b.v),
                        Vector3_product_scalar(a.v, b.w)) ]

Quaternion_product(a, b) ==
    LET w1 == a.w
        v1 == a.v
        w2 == b.w
        v2 == b.v
    IN  [ w |-> FSub(FMul(w1, w2), Vector3_dot(v1, v2)),
          v |-> Vector3_sum(
                    Vector3_sum(Vector3_cross(v1, v2),
                                Vector3_product_scalar(v1, w2)),
                    Vector3_product_scalar(v2, w1)) ]

\* impl Mul<F> and Div<F> for Quaternion
Quaternion_mul_scalar(a, s) ==
    [w |-> FMul(a.w, s), v |-> Vector3_product_scalar(a.v, s)]

Quaternion_div_scalar(a, s) ==
    [w |-> FDiv(a.w, s), v |-> Vector3_quotient_scalar(a.v, s)]

Quaternion_norm(a) == FSqrt(FAdd(FMul(a.w, a.w), Vector3_dot(a.v, a.v)))

\* a versor that substitutes the identity for a quaternion of norm zero
versor_guards_zero(a) ==
    LET n == Quaternion_norm(a)
    IN  IF FEq(n, F(0)) THEN Quaternion_identity
        ELSE [w |-> FDiv(a.w, n), v |-> Vector3_quotient_scalar(a.v, n)]

Quaternion_versor(a) ==
    LET n == Quaternion_norm(a)
    IN  [w |-> FDiv(a.w, n), v |-> Vector3_quotient_scalar(a.v, n)]

\* an inverse that divides by the norm instead of its square
inverse_divides_by_norm(a) ==
    Quaternion_div_scalar(Quaternion_conjugate(a), Quaternion_norm(a))

\* an inverse that does not conjugate
inverse_without_conjugate(a) ==
    Quaternion_div_scalar(a, FMul(Quaternion_norm(a), Quaternion_norm(a)))

Quaternion_inverse(a) ==
    Quaternion_div_scalar(Quaternion_conjugate(a),
                          FMul(Quaternion_norm(a), Quaternion_norm(a)))

\* quotient: every component has its own denominator, built from the
\* components of self
Quaternion_quotient(a, b) ==
    LET q1w == a.w
        q1x == a.v[1]
        q1y == a.v[2]
        q1z == a.v[3]
        q2w == b.w
        q2x == b.v[1]
        q2y == b.v[2]
        q2z == b.v[3]
        sq(x) == FMul(x, x)
    IN  [ w |-> FDiv(FAdd(FAdd(FAdd(FMul(q1w, q2w), FMul(q1x, q2x)),
                               FMul(q1y, q2y)), FMul(q1z, q2z)),
                     FAdd(FAdd(FAdd(sq(q1w), sq(q1x)), sq(q1y)), sq(q1z))),
          v |-> Vector3_new(
                  FDiv(FSub(FAdd(FSub(FMul(q1w, q2x), FMul(q1x, q2w)),
                                 FMul(q1y, q2z)), FMul(q1z, q2y)),
                       FSub(FAdd(FSub(sq(q1w), sq(q1x)), sq(q1y)), sq(q1z))),
                  FDiv(FAdd(FAdd(FSub(FMul(q1w, q2y), FMul(q1x, q2z)),
                                 FMul(q1y, q2w)), FMul(q1z, q2x)),
                       FAdd(FSub(FSub(sq(q1w), sq(q1x)), sq(q1y)), sq(q1z))),
                  FDiv(FAdd(FSub(FAdd(FMul(q1w, q2z), FMul(q1x, q2y)),
                                 FMul(q1y, q2x)), FMul(q1z, q2w)),
                       FSub(FSub(FAdd(sq(q1w), sq(q1x)), sq(q1y)), sq(q1z)))) ]

Quaternion_exp(a) ==
    LET n == Quaternion_norm(a)
        c == FCosOfNumber(n)
        s == FSinOfNumber(n)
        q == Quaternion_versor(a)
    IN  [w |-> c, v |-> Vector3_product_scalar(q.v, s)]

Quaternion_log(a) ==
    LET n == Quaternion_norm(a)
        c == FLn(n)
        q == Quaternion_versor(a)
    IN  [w |-> c, v |-> Vector3_product_scalar(q.v, c)]

Quaternion_from_axis_angle(axis, angle) ==
    LET half_angle == FDiv(to_radians(angle), F(2))
    IN  [ w |-> FCos(half_angle),
          v |-> Vector3_product_scalar(axis, FSin(half_angle)) ]

Quaternion_from_euler_angles(x, y, z) ==
    LET half_x == FDiv(to_radians(x), F(2))
        half_y == FDiv(to_radians(y), F(2))
        half_z == FDiv(to_radians(z), F(2))
        sin_x  == FSin(half_x)
        sin_y  == FSin(half_y)
        sin_z  == FSin(half_z)
        cos_x  == FCos(half_x)
        cos_y  == FCos(half_y)
        cos_z  == FCos(half_z)
    IN  [ w |-> FAdd(FMul(FMul(cos_x, cos_y), cos_z),
                     FMul(FMul(sin_x, sin_y), sin_z)),
          v |-> Vector3_new(
                  FSub(FMul(FMul(cos_x, sin_y), cos_z),
                       FMul(FMul(sin_x, cos_y), sin_z)),
                  FSub(FMul(FMul(cos_x, cos_y), sin_z),
                       FMul(FMul(sin_x, sin_y), cos_z)),
                  FAdd(FMul(FMul(cos_x, sin_y), sin_z),
                       FMul(FMul(sin_x, cos_y), cos_z))) ]

\* the outcome of a call that ended in panic!("Index out of bounds")
Panicked == "panicked"

\* an index that wraps an out-of-range index onto a component
index_wraps(q, index) ==
    CASE index % 4 = 0 -> q.w
      [] index % 4 = 1 -> q.v[1]
      [] index % 4 = 2 -> q.v[2]
      [] index % 4 = 3 -> q.v[3]

\* impl Index<usize>: q[0] is w, q[1], q[2], q[3] are v[0], v[1], v[2]; any
\* other index panics
Quaternion_index(q, index) ==
    CASE index = 0 -> q.w
      [] index = 1 -> q.v[1]
      [] index = 2 -> q.v[2]
      [] index = 3 -> q.v[3]
      [] OTHER     -> Panicked

\* a write through index_mut that reaches every component
index_mut_writes_all(q, index, x) == [w |-> x, v |-> <<x, x, x>>]

\* impl IndexMut<usize>: the quaternion after `q[index] = x`, index < 4
Quaternion_index_mut(q, index, x) ==
    CASE index = 0 -> [w |-> x, v |-> q.v]
      [] index = 1 -> [w |-> q.w, v |-> <<x, q.v[2], q.v[3]>>]
      [] index = 2 -> [w |-> q.w, v |-> <<q.v[1], x, q.v[3]>>]
      [] index = 3 -> [w |-> q.w, v |-> <<q.v[1], q.v[2], x>>]

Quaternion_eq(a, b) == FEq(a.w, b.w) /\ Vector3_eq(a.v, b.v)

\* the product *self * p_in * self.conjugate() that rotate_vector evaluates
sandwich(q, v) ==
    LET p_in == [w |-> F(0), v |-> v]
    IN  Quaternion_product(Quaternion_product(q, p_in), Quaternion_conjugate(q))

\* a slip: self.conjugate() * p_in * *self
rotate_vector_conjugate_first(q, v) ==
    Quaternion_product(
        Quaternion_product(Quaternion_conjugate(q), [w |-> F(0), v |-> v]), q).v

Quaternion_rotate_vector(q, v) == sandwich(q, v).v

\* a slip: the assignment to m[0][1] is missing, the identity's 0 stays
rotation_matrix_skips_entry(q) ==
    LET w == q.w
        x == q.v[1]
        y == q.v[2]
        z == q.v[3]
        t(a, b) == FMul(FMul(F(2), a), b)
    IN  [Matrix3_identity EXCEPT
            ![1][1] = FAdd(FSub(t(w, w), F(1)), t(x, x)),
            ![1][3] = FSub(t(x, z), t(w, y)),
            ![2][1] = FSub(t(x, y), t(w, z)),
            ![2][2] = FAdd(FSub(t(w, w), F(1)), t(y, y)),
            ![2][3] = FAdd(t(y, z), t(w, x)),
            ![3][1] = FAdd(t(x, z), t(w, y)),
            ![3][2] = FSub(t(y, z), t(w, x)),
            ![3][3] = FAdd(FSub(t(w, w), F(1)), t(z, z))]

Quaternion_rotation_matrix(q) ==
    LET two == F(2)
        w   == q.w
        x   == q.v[1]
        y   == q.v[2]
        z   == q.v[3]
        m0  == Matrix3_identity
        m1  == [m0 EXCEPT ![1][1] =
                   FAdd(FSub(FMul(FMul(two, w), w), F(1)), FMul(FMul(two, x), x))]
        m2  == [m1 EXCEPT ![1][2] =
                   FAdd(FMul(FMul(two, x), y), FMul(FMul(two, w), z))]
        m3  == [m2 EXCEPT ![1][3] =
                   FSub(FMul(FMul(two, x), z), FMul(FMul(two, w), y))]
        m4  == [m3 EXCEPT ![2][1] =
                   FSub(FMul(FMul(two, x), y), FMul(FMul(two, w), z))]
        m5  == [m4 EXCEPT ![2][2] =
                   FAdd(FSub(FMul(FMul(two, w), w), F(1)), FMul(FMul(two, y), y))]
        m6  == [m5 EXCEPT ![2][3] =
                   FAdd(FMul(FMul(two, y), z), FMul(FMul(two, w), x))]
        m7  == [m6 EXCEPT ![3][1] =
                   FAdd(FMul(FMul(two, x), z), FMul(FMul(two, w), y))]
        m8  == [m7 EXCEPT ![3][2] =
                   FSub(FMul(FMul(two, y), z), FMul(FMul(two, w), x))]
        m9  == [m8 EXCEPT ![3][3] =
                   FAdd(FSub(FMul(FMul(two, w), w), F(1)), FMul(FMul(two, z), z))]
    IN  m9

(***************************************************************************)
(* Inputs.  Quaternions are built with Quaternion::new, which validates    *)
(* nothing, from finite components: the unit quaternions 1, i, k, two      *)
(* half-integer (Hurwitz) units and a unit with components 3/5 and 4/5,    *)
(* and non-unit values, among them the operands of the repository's tests. *)
(***************************************************************************)
h == <<1, 2>>

QuatComponents ==
    { <<F(1), F(0), F(0), F(0)>>,
      <<F(0), F(1), F(0), F(0)>>,
      <<F(0), F(0), F(0), F(1)>>,
      <<h, h, h, h>>,
      <<h, FNeg(h), h, FNeg(h)>>,
      <<<<3, 5>>, F(0), <<4, 5>>, F(0)>>,
      <<F(1), F(2), F(3), F(4)>>,
      <<F(5), F(6), F(7), F(8)>>,
      <<F(0), F(0), F(0), F(0)>>,
      <<F(2), F(0), F(-1), h>> }

VecComponents ==
    { <<F(0), F(1), F(0)>>,
      <<F(1), F(0), F(0)>>,
      <<F(1), F(2), F(3)>>,
      <<F(0), F(0), F(0)>>,
      <<F(-1), h, F(2)>> }

\* the exponents handed to pow
PowExponents == { F(0), F(2), h }

\* res while a call has not returned
Pending == "pending"

(***************************************************************************)
(* The state after construction: two quaternions and a vector built from   *)
(* their components, the identity matrix, no call made yet.                *)
(***************************************************************************)
Init ==
    /\ \E c \in QuatComponents : q1 = Quaternion_new(c[1], <<c[2], c[3], c[4]>>)
    /\ \E c \in QuatComponents : q2 = Quaternion_new(c[1], <<c[2], c[3], c[4]>>)
    /\ \E c \in VecComponents : vec = Vector3_new(c[1], c[2], c[3])
    /\ mat = Matrix3_identity
    /\ op = "new"
    /\ arg = <<>>
    /\ res = q1
    /\ chain = <<>>
    /\ pow_stack = <<>>
    /\ pow_state = "idle"

\* the caller is not inside a call (pow neither running nor aborted)
Idle == pow_state = "idle"

\* q2 = Quaternion::identity()
Identity ==
    /\ Idle
    /\ q2' = Quaternion_identity
    /\ op' = "identity"
    /\ res' = Quaternion_identity
    /\ chain' = <<>>
    /\ arg' = <<>>
    /\ UNCHANGED <<q1, vec, mat, pow_stack, pow_state>>

\* q1 * q2
Product ==
    /\ Idle
    /\ op' = "product"
    /\ res' = Quaternion_product(q1, q2)
    /\ chain' = <<>>
    /\ arg' = <<>>
    /\ UNCHANGED <<q1, q2, vec, mat, pow_stack, pow_state>>

\* q1 - q2
Difference ==
    /\ Idle
    /\ op' = "difference"
    /\ res' = Quaternion_difference(q1, q2)
    /\ chain' = <<>>
    /\ arg' = <<>>
    /\ UNCHANGED <<q1, q2, vec, mat, pow_stack, pow_state>>

\* q1.conjugate()
Conjugate ==
    /\ Idle
    /\ op' = "conjugate"
    /\ res' = Quaternion_conjugate(q1)
    /\ chain' = <<>>
    /\ arg' = <<>>
    /\ UNCHANGED <<q1, q2, vec, mat, pow_stack, pow_state>>

\* q.rotate_vector(u) for q one of the operands and u the vector operand or,
\* right after a rotate_vector call, the vector that call returned; chain
\* records the quaternions applied to vec so far
RotateVector ==
    /\ Idle
    /\ Len(chain) < MaxChain
    /\ \E q \in {q1, q2} :
          LET u == IF op = "rotate_vector" THEN res ELSE vec
          IN  /\ res' = Quaternion_rotate_vector(q, u)
              /\ chain' = Append(chain, q)
    /\ op' = "rotate_vector"
    /\ arg' = <<>>
    /\ UNCHANGED <<q1, q2, vec, mat, pow_stack, pow_state>>

\* mat = q1.rotation_matrix()
RotationMatrix ==
    /\ Idle
    /\ op' = "rotation_matrix"
    /\ res' = Quaternion_rotation_matrix(q1)
    /\ mat' = res'
    /\ chain' = <<>>
    /\ arg' = <<>>
    /\ UNCHANGED <<q1, q2, vec, pow_stack, pow_state>>

\* vec * mat
ProductMatrix ==
    /\ Idle
    /\ op' = "product_matrix"
    /\ res' = Vector3_product_matrix(vec, mat)
    /\ chain' = <<>>
    /\ arg' = <<>>
    /\ UNCHANGED <<q1, q2, vec, mat, pow_stack, pow_state>>

\* mat.transpose()
Transpose ==
    /\ Idle
    /\ op' = "transpose"
    /\ res' = Matrix3_transpose(mat)
    /\ chain' = <<>>
    /\ arg' = <<>>
    /\ UNCHANGED <<q1, q2, vec, mat, pow_stack, pow_state>>

\* t * mat for the matrix t a transpose call just returned
Mul ==
    /\ Idle
    /\ op = "transpose"
    /\ op' = "mul"
    /\ res' = Matrix3_mul(res, mat)
    /\ chain' = <<>>
    /\ arg' = <<>>
    /\ UNCHANGED <<q1, q2, vec, mat, pow_stack, pow_state>>

(***************************************************************************)
(* pow(self, n) is `self.exp() * self.pow(n - 1)`: every frame evaluates   *)
(* self.exp() and then calls pow again; no branch returns without the      *)
(* recursive call.  pow_stack holds the argument n of each active frame.   *)
(* The value of self.exp() plays no part in the control flow and is not    *)
(* computed here.  The stack is finite: the process aborts when a frame    *)
(* does not fit (MaxStack frames here).                                    *)
(***************************************************************************)
PowCall ==
    /\ Idle
    /\ \E n \in PowExponents : pow_stack' = <<n>>
    /\ pow_state' = "running"
    /\ op' = "pow"
    /\ res' = Pending
    /\ chain' = <<>>
    /\ arg' = <<>>
    /\ UNCHANGED <<q1, q2, vec, mat>>

PowRecurse ==
    /\ pow_state = "running"
    /\ Len(pow_stack) < MaxStack
    /\ pow_stack' = Append(pow_stack, FSub(pow_stack[Len(pow_stack)], F(1)))
    /\ UNCHANGED <<q1, q2, vec, mat, op, arg, res, chain, pow_state>>

PowOverflow ==
    /\ pow_state = "running"
    /\ Len(pow_stack) = MaxStack
    /\ pow_state' = "aborted"
    /\ UNCHANGED <<q1, q2, vec, mat, op, arg, res, chain, pow_stack>>

Next ==
    \/ Identity
    \/ Product
    \/ Difference
    \/ Conjugate
    \/ RotateVector
    \/ RotationMatrix
    \/ ProductMatrix
    \/ Transpose
    \/ Mul
    \/ PowCall
    \/ PowRecurse
    \/ PowOverflow

Spec == Init /\ [][Next]_vars

(***************************************************************************)
(* Division, inverse and normalisation of the operands, and rotation by a  *)
(* quaternion followed by rotation by its conjugate.                       *)
(***************************************************************************)
\* q1 / q2  (impl Div for Quaternion calls quotient)
Quotient ==
    /\ Idle
    /\ op' = "quotient"
    /\ arg' = <<>>
    /\ res' = Quaternion_quotient(q1, q2)
    /\ chain' = <<>>
    /\ UNCHANGED <<q1, q2, vec, mat, pow_stack, pow_state>>

\* q1.inverse()
Inverse ==
    /\ Idle
    /\ op' = "inverse"
    /\ arg' = <<>>
    /\ res' = Quaternion_inverse(q1)
    /\ chain' = <<>>
    /\ UNCHANGED <<q1, q2, vec, mat, pow_stack, pow_state>>

\* q1.versor()
Versor ==
    /\ Idle
    /\ op' = "versor"
    /\ arg' = <<>>
    /\ res' = Quaternion_versor(q1)
    /\ chain' = <<>>
    /\ UNCHANGED <<q1, q2, vec, mat, pow_stack, pow_state>>

\* q.conjugate().rotate_vector(u) for q the quaternion the preceding
\* rotate_vector call applied and u the vector it returned
RotateVectorByConjugate ==
    /\ Idle
    /\ op = "rotate_vector"
    /\ Len(chain) < MaxChain
    /\ LET q == Quaternion_conjugate(chain[Len(chain)])
       IN  /\ res' = Quaternion_rotate_vector(q, res)
           /\ chain' = Append(chain, q)
    /\ op' = "rotate_vector"
    /\ arg' = <<>>
    /\ UNCHANGED <<q1, q2, vec, mat, pow_stack, pow_state>>

NextAlgebra ==
    \/ Quotient
    \/ Inverse
    \/ Versor
    \/ Conjugate
    \/ RotateVector
    \/ RotateVectorByConjugate

SpecAlgebra == Init /\ [][NextAlgebra]_vars

(***************************************************************************)
(* Sum, difference, product and conjugate of the operands, and the         *)
(* logarithm of q1 followed by the exponential of the result.              *)
(***************************************************************************)
\* q1.log(), for q1 of norm 1 or 0 (where ln is represented)
Log ==
    /\ Idle
    /\ Quaternion_norm(q1) \in {F(0), F(1)}
    /\ op' = "log"
    /\ arg' = <<>>
    /\ res' = Quaternion_log(q1)
    /\ chain' = <<>>
    /\ UNCHANGED <<q1, q2, vec, mat, pow_stack, pow_state>>

\* r.exp() for the quaternion r = q1.log() a log call just returned
Exp ==
    /\ Idle
    /\ op = "log"
    /\ op' = "exp"
    /\ arg' = <<>>
    /\ res' = Quaternion_exp(res)
    /\ chain' = <<>>
    /\ UNCHANGED <<q1, q2, vec, mat, pow_stack, pow_state>>

\* q1 + q2
Sum ==
    /\ Idle
    /\ op' = "sum"
    /\ arg' = <<>>
    /\ res' = Quaternion_sum(q1, q2)
    /\ chain' = <<>>
    /\ UNCHANGED <<q1, q2, vec, mat, pow_stack, pow_state>>

NextArithmetic ==
    \/ Sum
    \/ Difference
    \/ Product
    \/ Conjugate
    \/ Log
    \/ Exp

SpecArithmetic == Init /\ [][NextArithmetic]_vars

(***************************************************************************)
(* Construction from an axis and an angle or from Euler angles (degrees),  *)
(* and rotation of the vector operand by the constructed quaternion.       *)
(***************************************************************************)
Axes ==
    { Vector3_new(F(1), F(0), F(0)),
      Vector3_new(F(0), F(1), F(0)),
      Vector3_new(F(0), F(0), F(1)) }

Angles == { F(0), F(90), F(180), F(-90) }

\* rotations about a single axis by each angle, and one about two axes
EulerAngles ==
    UNION { { <<a, F(0), F(0)>>, <<F(0), a, F(0)>>, <<F(0), F(0), a>> } :
            a \in Angles }
    \cup { <<F(90), F(90), F(0)>> }

InitConstruct ==
    /\ q1 = Quaternion_identity
    /\ q2 = Quaternion_identity
    /\ \E c \in VecComponents : vec = Vector3_new(c[1], c[2], c[3])
    /\ mat = Matrix3_identity
    /\ op = "new"
    /\ arg = <<>>
    /\ res = q1
    /\ chain = <<>>
    /\ pow_stack = <<>>
    /\ pow_state = "idle"

\* Quaternion::from_axis_angle(axis, angle)
FromAxisAngle ==
    /\ Idle
    /\ \E axis \in Axes, angle \in Angles :
          /\ arg' = <<axis, angle>>
          /\ res' = Quaternion_from_axis_angle(axis, angle)
    /\ op' = "from_axis_angle"
    /\ chain' = <<>>
    /\ UNCHANGED <<q1, q2, vec, mat, pow_stack, pow_state>>

\* Quaternion::from_euler_angles(x, y, z)
FromEulerAngles ==
    /\ Idle
    /\ \E e \in EulerAngles :
          /\ arg' = e
          /\ res' = Quaternion_from_euler_angles(e[1], e[2], e[3])
    /\ op' = "from_euler_angles"
    /\ chain' = <<>>
    /\ UNCHANGED <<q1, q2, vec, mat, pow_stack, pow_state>>

\* q.rotate_vector(vec) for the quaternion q a constructor just returned
RotateVectorByResult ==
    /\ Idle
    /\ op \in {"from_axis_angle", "from_euler_angles"}
    /\ res' = Quaternion_rotate_vector(res, vec)
    /\ chain' = <<res>>
    /\ op' = "rotate_vector"
    /\ arg' = <<>>
    /\ UNCHANGED <<q1, q2, vec, mat, pow_stack, pow_state>>

NextConstruct ==
    \/ FromAxisAngle
    \/ FromEulerAngles
    \/ RotateVectorByResult
    \/ RotateVectorByConjugate

SpecConstruct == InitConstruct /\ [][NextConstruct]_vars

(***************************************************************************)
(* Determinant and inverse of the matrix operand, which is one of a few    *)
(* singular and regular matrices or the rotation matrix of q1.             *)
(***************************************************************************)
Matrices ==
    { Matrix3_new(F(1), F(2), F(3), F(4), F(5), F(6), F(7), F(8), F(9)),
      Matrix3_new(F(1), F(2), F(3), F(2), F(4), F(6), F(0), F(1), F(1)),
      Matrix3_new(F(0), F(0), F(0), F(0), F(0), F(0), F(0), F(0), F(0)),
      Matrix3_new(F(2), F(0), F(1), F(1), F(3), F(0), F(0), F(1), F(1)),
      Matrix3_identity }

InitMatrix ==
    /\ \E c \in QuatComponents : q1 = Quaternion_new(c[1], <<c[2], c[3], c[4]>>)
    /\ q2 = Quaternion_identity
    /\ vec = Vector3_zero
    /\ mat \in Matrices
    /\ op = "new"
    /\ arg = <<>>
    /\ res = mat
    /\ chain = <<>>
    /\ pow_stack = <<>>
    /\ pow_state = "idle"

\* mat.determinant()
Determinant ==
    /\ Idle
    /\ op' = "determinant"
    /\ arg' = <<>>
    /\ res' = Matrix3_determinant(mat)
    /\ chain' = <<>>
    /\ UNCHANGED <<q1, q2, vec, mat, pow_stack, pow_state>>

\* mat.inverse()
MatrixInverse ==
    /\ Idle
    /\ op' = "matrix3_inverse"
    /\ arg' = <<>>
    /\ res' = Matrix3_inverse(mat)
    /\ chain' = <<>>
    /\ UNCHANGED <<q1, q2, vec, mat, pow_stack, pow_state>>

\* mat * b  (impl Mul for Matrix3 calls mul)
MatrixMul ==
    /\ Idle
    /\ \E b \in Matrices :
          /\ arg' = <<b>>
          /\ res' = Matrix3_mul(mat, b)
    /\ op' = "matrix3_mul"
    /\ chain' = <<>>
    /\ UNCHANGED <<q1, q2, vec, mat, pow_stack, pow_state>>

\* mat / b  (impl Div for Matrix3 calls div)
MatrixDiv ==
    /\ Idle
    /\ \E b \in Matrices :
          /\ arg' = <<b>>
          /\ res' = Matrix3_div(mat, b)
    /\ op' = "matrix3_div"
    /\ chain' = <<>>
    /\ UNCHANGED <<q1, q2, vec, mat, pow_stack, pow_state>>

NextMatrix ==
    \/ MatrixMul
    \/ MatrixDiv
    \/ RotationMatrix
    \/ Determinant
    \/ MatrixInverse
    \/ Transpose
    \/ Mul

SpecMatrix == InitMatrix /\ [][NextMatrix]_vars

(***************************************************************************)
(* Comparison of two 4x4 matrices, each the identity or the identity with  *)
(* one entry replaced by 2.                                                *)
(***************************************************************************)
Matrices4 ==
    {Matrix4_identity}
    \cup { [Matrix4_identity EXCEPT ![i][j] = F(2)] : i \in 1..4, j \in 1..4 }

InitMatrix4 ==
    /\ q1 = Quaternion_identity
    /\ q2 = Quaternion_identity
    /\ vec = Vector3_zero
    /\ mat \in Matrices4
    /\ op = "new"
    /\ arg = <<>>
    /\ res = mat
    /\ chain = <<>>
    /\ pow_stack = <<>>
    /\ pow_state = "idle"

\* mat == b
Matrix4Eq ==
    /\ Idle
    /\ \E b \in Matrices4 :
          /\ arg' = <<b>>
          /\ res' = Matrix4_eq(mat, b)
    /\ op' = "matrix4_eq"
    /\ chain' = <<>>
    /\ UNCHANGED <<q1, q2, vec, mat, pow_stack, pow_state>>

NextMatrix4 == Matrix4Eq

SpecMatrix4 == InitMatrix4 /\ [][NextMatrix4]_vars

(***************************************************************************)
(* Writes through IndexMut (`q1[index] = x`) between calls of operations   *)
(* that take their operands by value.                                      *)
(***************************************************************************)
\* 0..3 name a component; 4 and 5 are out of range
Indices == 0..5

Written == { F(9) }

InitMut ==
    /\ \E c \in QuatComponents : q1 = Quaternion_new(c[1], <<c[2], c[3], c[4]>>)
    /\ q2 = Quaternion_new(F(5), <<F(6), F(7), F(8)>>)
    /\ vec = Vector3_zero
    /\ mat = Matrix3_identity
    /\ op = "new"
    /\ arg = <<>>
    /\ res = q1
    /\ chain = <<>>
    /\ pow_stack = <<>>
    /\ pow_state = "idle"

\* q1[index] = x; an index above 3 panics before anything is written
IndexMut ==
    /\ Idle
    /\ \E index \in Indices, x \in Written :
          /\ arg' = <<index, x>>
          /\ IF index \in 0..3
             THEN /\ q1' = Quaternion_index_mut(q1, index, x)
                  /\ res' = x
             ELSE /\ q1' = q1
                  /\ res' = Panicked
    /\ op' = "index_mut"
    /\ chain' = <<>>
    /\ UNCHANGED <<q2, vec, mat, pow_stack, pow_state>>

\* q1[index]
Index ==
    /\ Idle
    /\ \E index \in Indices :
          /\ arg' = <<index>>
          /\ res' = Quaternion_index(q1, index)
    /\ op' = "index"
    /\ chain' = <<>>
    /\ UNCHANGED <<q1, q2, vec, mat, pow_stack, pow_state>>

NextMut ==
    \/ IndexMut
    \/ Index
    \/ Conjugate
    \/ Product
    \/ Difference

SpecMut == InitMut /\ [][NextMut]_vars

(***************************************************************************)
(* Vocabulary of the properties.                                           *)
(***************************************************************************)
\* the quaternion (w, [x, y, z]) with integer components
QInt(w, x, y, z) == [w |-> F(w), v |-> <<F(x), F(y), F(z)>>]

\* w^2 + |v|^2 = 1
IsUnit(q) ==
    FAdd(FAdd(FAdd(FMul(q.w, q.w), FMul(q.v[1], q.v[1])), FMul(q.v[2], q.v[2])),
         FMul(q.v[3], q.v[3])) = F(1)

\* a + b + c + d and 2ab on scalars
Sum4(a, b, c, d) == FAdd(FAdd(FAdd(a, b), c), d)

Twice(a, b) == FMul(F(2), FMul(a, b))

\* the sequence s without its last element
Front(s) == SubSeq(s, 1, Len(s) - 1)

\* the vector obtained from v by rotating it by s[1], then s[2], ...
RECURSIVE ApplyChain(_, _)
ApplyChain(s, v) ==
    IF s = <<>> THEN v
    ELSE ApplyChain(Tail(s), Quaternion_rotate_vector(Head(s), v))

\* the product s[n] * (... * (s[2] * s[1])) of a non-empty sequence
RECURSIVE ComposeChain(_)
ComposeChain(s) ==
    IF Len(s) = 1 THEN s[1]
    ELSE Quaternion_product(s[Len(s)], ComposeChain(Front(s)))

(***************************************************************************)
(* C1: product returns the Hamilton product                                *)
(* (w1*w2 - v1.v2, w1*v2 + w2*v1 + v1 x v2), written out per component;    *)
(* (1,[2,3,4])*(5,[6,7,8]) = (-60,[12,30,24]) and                          *)
(* (1,[2,3,4])*(1,[2,3,4]) = (-28,[4,6,8]).                                *)
(***************************************************************************)
C1_HamiltonProduct ==
    op = "product" =>
        LET w1 == q1.w
            x1 == q1.v[1]
            y1 == q1.v[2]
            z1 == q1.v[3]
            w2 == q2.w
            x2 == q2.v[1]
            y2 == q2.v[2]
            z2 == q2.v[3]
        IN  /\ res.w = Sum4(FMul(w1, w2), FNeg(FMul(x1, x2)),
                            FNeg(FMul(y1, y2)), FNeg(FMul(z1, z2)))
            /\ res.v[1] = Sum4(FMul(w1, x2), FMul(w2, x1),
                               FMul(y1, z2), FNeg(FMul(z1, y2)))
            /\ res.v[2] = Sum4(FMul(w1, y2), FMul(w2, y1),
                               FMul(z1, x2), FNeg(FMul(x1, z2)))
            /\ res.v[3] = Sum4(FMul(w1, z2), FMul(w2, z1),
                               FMul(x1, y2), FNeg(FMul(y1, x2)))
            /\ (q1 = QInt(1, 2, 3, 4) /\ q2 = QInt(5, 6, 7, 8)
                    => res = QInt(-60, 12, 30, 24))
            /\ (q1 = QInt(1, 2, 3, 4) /\ q2 = QInt(1, 2, 3, 4)
                    => res = QInt(-28, 4, 6, 8))

C1_Witness ==
    /\ op = "product"
    /\ q1 = QInt(1, 2, 3, 4)
    /\ q2 = QInt(5, 6, 7, 8)
    /\ res = QInt(-60, 12, 30, 24)

(***************************************************************************)
(* C2: the product encodes composition order: rotating a vector by q2 and  *)
(* then by q1 gives rotate_vector(q1*q2, v); in general the vector left by *)
(* successive rotate_vector calls is the rotation of the original vector   *)
(* by the product of the quaternions, the last applied leftmost.           *)
(***************************************************************************)
C2_CompositionOrder ==
    op = "rotate_vector" =>
        res = Quaternion_rotate_vector(ComposeChain(chain), vec)

C2_Witness ==
    /\ op = "rotate_vector"
    /\ Len(chain) = 2
    /\ Quaternion_product(chain[1], chain[2]) # Quaternion_product(chain[2], chain[1])
    /\ res = Quaternion_rotate_vector(Quaternion_product(chain[2], chain[1]), vec)
    /\ res # Quaternion_rotate_vector(Quaternion_product(chain[1], chain[2]), vec)

(***************************************************************************)
(* C3: the sandwich product q * (0,v) * q.conjugate() that rotate_vector   *)
(* evaluates has real part zero, so the returned vector part is the whole  *)
(* product: nothing non-zero is dropped.                                   *)
(***************************************************************************)
C3_RealPartZero ==
    op = "rotate_vector" =>
        LET q == chain[Len(chain)]
            u == ApplyChain(Front(chain), vec)
        IN  /\ sandwich(q, u).w = F(0)
            /\ sandwich(q, u) = [w |-> F(0), v |-> res]

C3_Witness ==
    /\ op = "rotate_vector"
    /\ chain = <<QInt(1, 2, 3, 4)>>
    /\ vec = <<F(1), F(2), F(3)>>
    /\ res # vec
    /\ sandwich(chain[1], vec).w = F(0)

(***************************************************************************)
(* C4: rotate_vector by unit-norm quaternions preserves the squared        *)
(* magnitude of the vector.                                                *)
(***************************************************************************)
C4_MagnitudePreserved ==
    (op = "rotate_vector" /\ \A k \in 1..Len(chain) : IsUnit(chain[k])) =>
        Vector3_dot(res, res) = Vector3_dot(vec, vec)

C4_Witness ==
    /\ op = "rotate_vector"
    /\ chain = <<[w |-> h, v |-> <<h, h, h>>]>>
    /\ vec = <<F(1), F(2), F(3)>>
    /\ res # vec
    /\ Vector3_dot(res, res) = F(14)

(***************************************************************************)
(* C5: for a unit-norm quaternion q, v * rotation_matrix(q) (the library's *)
(* Vector3 * Matrix3 product, product_matrix) is rotate_vector(q, v).      *)
(***************************************************************************)
C5_MatrixMatchesRotateVector ==
    (/\ op = "product_matrix"
     /\ mat = Quaternion_rotation_matrix(q1)
     /\ IsUnit(q1)) =>
        res = Quaternion_rotate_vector(q1, vec)

C5_Witness ==
    /\ op = "product_matrix"
    /\ q1 = [w |-> h, v |-> <<h, h, h>>]
    /\ mat = Quaternion_rotation_matrix(q1)
    /\ mat # Matrix3_transpose(mat)
    /\ vec = <<F(1), F(2), F(3)>>
    /\ res = Quaternion_rotate_vector(q1, vec)
    /\ res # vec

(***************************************************************************)
(* C6: rotation_matrix(q) is the matrix with rows                          *)
(* [2w^2-1+2x^2, 2xy+2wz, 2xz-2wy], [2xy-2wz, 2w^2-1+2y^2, 2yz+2wx],       *)
(* [2xz+2wy, 2yz-2wx, 2w^2-1+2z^2]: all nine entries are written.          *)
(***************************************************************************)
C6_RotationMatrixFormula ==
    op = "rotation_matrix" =>
        LET w == q1.w
            x == q1.v[1]
            y == q1.v[2]
            z == q1.v[3]
            d(c) == FAdd(FSub(Twice(w, w), F(1)), Twice(c, c))
        IN  res = << << d(x),
                        FAdd(Twice(x, y), Twice(w, z)),
                        FSub(Twice(x, z), Twice(w, y)) >>,
                     << FSub(Twice(x, y), Twice(w, z)),
                        d(y),
                        FAdd(Twice(y, z), Twice(w, x)) >>,
                     << FAdd(Twice(x, z), Twice(w, y)),
                        FSub(Twice(y, z), Twice(w, x)),
                        d(z) >> >>

C6_Witness ==
    /\ op = "rotation_matrix"
    /\ q1 = QInt(1, 2, 3, 4)
    /\ \A i, j \in 1..3 : res[i][j] # Matrix3_identity[i][j]
    /\ res[1] = <<F(9), F(20), F(10)>>

(***************************************************************************)
(* C7: for a unit-norm quaternion q, rotation_matrix(q) is orthogonal:     *)
(* rotation_matrix(q).transpose() * rotation_matrix(q) is the identity.    *)
(***************************************************************************)
C7_RotationMatrixOrthogonal ==
    (/\ op = "mul"
     /\ mat = Quaternion_rotation_matrix(q1)
     /\ IsUnit(q1)) =>
        res = Matrix3_identity

C7_Witness ==
    /\ op = "mul"
    /\ q1 = [w |-> h, v |-> <<FNeg(h), h, FNeg(h)>>]
    /\ mat = Quaternion_rotation_matrix(q1)
    /\ mat # Matrix3_identity
    /\ mat # Matrix3_transpose(mat)
    /\ res = Matrix3_identity

(***************************************************************************)
(* C8: identity() is a two-sided unit of the product: q * identity() == q  *)
(* and identity() * q == q.                                                *)
(***************************************************************************)
C8_IdentityLaws ==
    op = "product" =>
        /\ (q2 = Quaternion_identity => Quaternion_eq(res, q1))
        /\ (q1 = Quaternion_identity => Quaternion_eq(res, q2))

C8_Witness ==
    /\ op = "product"
    /\ q2 = Quaternion_identity
    /\ q1 = QInt(1, 2, 3, 4)
    /\ Quaternion_eq(res, q1)

(***************************************************************************)
(* C9: q1*q2 - q2*q1 has real part 0 and vector part 2*(v1 x v2); the      *)
(* product is not commutative (the witness is a pair with q1*q2 # q2*q1).  *)
(***************************************************************************)
C9_Commutator ==
    op = "product" =>
        Quaternion_difference(res, Quaternion_product(q2, q1)) =
            [ w |-> F(0),
              v |-> Vector3_product_scalar(Vector3_cross(q1.v, q2.v), F(2)) ]

C9_Witness ==
    /\ op = "product"
    /\ ~Quaternion_eq(res, Quaternion_product(q2, q1))
    /\ Quaternion_difference(res, Quaternion_product(q2, q1)).v # Vector3_zero

(***************************************************************************)
(* C10: a call q.pow(n) terminates and returns a quaternion: it never ends *)
(* by exhausting the stack in unbounded self-recursion.                    *)
(***************************************************************************)
C10_PowReturns == pow_state # "aborted"

\* the zero quaternion, w^2 + |v|^2 and the pure quaternion (0, v)
Zero == QInt(0, 0, 0, 0)

NormSquared(q) == FAdd(FMul(q.w, q.w), Vector3_dot(q.v, q.v))

Pure(v) == [w |-> F(0), v |-> v]

AllNaN(q) == q.w = NaN /\ \A i \in 1..3 : q.v[i] = NaN

(***************************************************************************)
(* C11: for every q1 and every non-zero q2, q1 / q2 (quotient) equals      *)
(* q1 * q2.inverse(); in particular q / q is the identity.                 *)
(***************************************************************************)
C11_QuotientIsProductWithInverse ==
    (op = "quotient" /\ q2 # Zero) =>
        /\ Quaternion_eq(res, Quaternion_product(q1, Quaternion_inverse(q2)))
        /\ (q1 = q2 => Quaternion_eq(res, Quaternion_identity))

(***************************************************************************)
(* C12: for every non-zero q, q.inverse() is conjugate(q) divided by       *)
(* w^2 + |v|^2, and q * q.inverse() and q.inverse() * q are the identity.  *)
(***************************************************************************)
C12_InverseIsMultiplicativeInverse ==
    (op = "inverse" /\ q1 # Zero) =>
        /\ Quaternion_eq(res, Quaternion_div_scalar(Quaternion_conjugate(q1),
                                                    NormSquared(q1)))
        /\ Quaternion_eq(Quaternion_product(q1, res), Quaternion_identity)
        /\ Quaternion_eq(Quaternion_product(res, q1), Quaternion_identity)

C12_Witness ==
    /\ op = "inverse"
    /\ q1 = QInt(1, 2, 3, 4)
    /\ res = [w |-> <<1, 30>>, v |-> <<<<-1, 15>>, <<-1, 10>>, <<-2, 15>>>>]

(***************************************************************************)
(* C13: for every unit-norm q, q.inverse() equals q.conjugate() component  *)
(* by component.                                                           *)
(***************************************************************************)
C13_UnitInverseIsConjugate ==
    (op = "inverse" /\ IsUnit(q1)) =>
        /\ res.w = Quaternion_conjugate(q1).w
        /\ \A i \in 1..3 : res.v[i] = Quaternion_conjugate(q1).v[i]

C13_Witness ==
    /\ op = "inverse"
    /\ q1 = [w |-> <<3, 5>>, v |-> <<F(0), <<4, 5>>, F(0)>>]
    /\ res = [w |-> <<3, 5>>, v |-> <<F(0), <<-4, 5>>, F(0)>>]

(***************************************************************************)
(* C14: for every unit-norm q and every vector v, rotating v by q and the  *)
(* result by q.conjugate() gives v back.                                   *)
(***************************************************************************)
C14_ConjugateRotatesBack ==
    ( /\ op = "rotate_vector"
      /\ Len(chain) = 2
      /\ IsUnit(chain[1])
      /\ chain[2] = Quaternion_conjugate(chain[1]) ) =>
        Vector3_eq(res, vec)

C14_Witness ==
    /\ op = "rotate_vector"
    /\ chain = << [w |-> h, v |-> <<h, h, h>>],
                  [w |-> h, v |-> <<FNeg(h), FNeg(h), FNeg(h)>>] >>
    /\ vec = Vector3_new(F(1), F(2), F(3))
    /\ res = vec
    /\ Quaternion_rotate_vector(chain[1], vec) # vec

(***************************************************************************)
(* C15: a single-axis Euler rotation equals the axis-angle construction:   *)
(* from_euler_angles(a, 0, 0) = from_axis_angle((1,0,0), a), and likewise  *)
(* (0, a, 0) with axis (0,1,0) and (0, 0, a) with axis (0,0,1).            *)
(***************************************************************************)
C15_EulerMatchesAxisAngle ==
    op = "from_euler_angles" =>
        /\ (arg[2] = F(0) /\ arg[3] = F(0)) =>
              Quaternion_eq(res, Quaternion_from_axis_angle(
                                     Vector3_new(F(1), F(0), F(0)), arg[1]))
        /\ (arg[1] = F(0) /\ arg[3] = F(0)) =>
              Quaternion_eq(res, Quaternion_from_axis_angle(
                                     Vector3_new(F(0), F(1), F(0)), arg[2]))
        /\ (arg[1] = F(0) /\ arg[2] = F(0)) =>
              Quaternion_eq(res, Quaternion_from_axis_angle(
                                     Vector3_new(F(0), F(0), F(1)), arg[3]))

(***************************************************************************)
(* C16: rotate_vector by from_axis_angle((1,0,0), 90) takes (0,1,0) to     *)
(* (0,0,1).                                                                *)
(***************************************************************************)
C16_QuarterTurnAboutX ==
    ( /\ op = "rotate_vector"
      /\ chain = << Quaternion_from_axis_angle(Vector3_new(F(1), F(0), F(0)),
                                               F(90)) >>
      /\ vec = Vector3_new(F(0), F(1), F(0)) ) =>
        Vector3_eq(res, Vector3_new(F(0), F(0), F(1)))

C16_Witness ==
    /\ op = "rotate_vector"
    /\ chain = << [w |-> HalfSqrt2, v |-> <<HalfSqrt2, F(0), F(0)>>] >>
    /\ vec = Vector3_new(F(0), F(1), F(0))
    /\ res = Vector3_new(F(0), F(0), F(1))

(***************************************************************************)
(* C17 as claimed: for every non-zero q, unit or not, rotate_vector(q, v)  *)
(* is the vector part of q * (0, v) * q.inverse(), so that scaling q does  *)
(* not change the result.                                                  *)
(***************************************************************************)
C17_RotateVectorUsesInverse ==
    (op = "rotate_vector" /\ Len(chain) = 1 /\ chain[1] # Zero) =>
        /\ Vector3_eq(res, Quaternion_product(
                               Quaternion_product(chain[1], Pure(vec)),
                               Quaternion_inverse(chain[1])).v)
        /\ Vector3_eq(res, Quaternion_rotate_vector(
                               Quaternion_mul_scalar(chain[1], F(2)), vec))

(***************************************************************************)
(* C17 as the code has it: rotate_vector(q, v) is the vector part of       *)
(* q * (0, v) * q.conjugate(), which for non-zero q is (w^2 + |v|^2) times *)
(* the vector part of q * (0, v) * q.inverse(); the two agree when q has   *)
(* unit norm, and scaling q by s scales the result by s^2.                 *)
(***************************************************************************)
C17_RotateVectorScalesByNormSquared ==
    (op = "rotate_vector" /\ Len(chain) = 1 /\ chain[1] # Zero) =>
        LET by_inverse == Quaternion_product(
                              Quaternion_product(chain[1], Pure(vec)),
                              Quaternion_inverse(chain[1])).v
        IN  /\ Vector3_eq(res, Vector3_product_scalar(by_inverse,
                                                      NormSquared(chain[1])))
            /\ IsUnit(chain[1]) => Vector3_eq(res, by_inverse)
            /\ Vector3_eq(Quaternion_rotate_vector(
                              Quaternion_mul_scalar(chain[1], F(2)), vec),
                          Vector3_product_scalar(res, F(4)))

C17_Witness ==
    /\ op = "rotate_vector"
    /\ chain = << QInt(1, 2, 3, 4) >>
    /\ vec = Vector3_new(F(0), F(1), F(0))
    /\ res = Vector3_new(F(4), F(-10), F(28))

(***************************************************************************)
(* C18: versor() and inverse() of the zero quaternion return NaN in every  *)
(* component (0/0), not the identity or another finite quaternion.         *)
(***************************************************************************)
C18_ZeroPropagatesNaN ==
    (op \in {"versor", "inverse"} /\ q1 = Zero) => AllNaN(res)

C18_Witness ==
    /\ op = "versor"
    /\ q1 = Zero
    /\ res = [w |-> NaN, v |-> <<NaN, NaN, NaN>>]

C20_NeverMutated == [][q1' = q1 /\ q2' = q2]_vars

(***************************************************************************)
(* C20 as the code has it: the only operation that changes an existing     *)
(* quaternion is a write through IndexMut, `q[index] = x` with index < 4,   *)
(* which sets the component index to x and leaves the other three; every   *)
(* other operation leaves its operands as they were.                       *)
(***************************************************************************)
C20_OnlyIndexMutWrites ==
    [][ /\ q2' = q2
        /\ q1' # q1 =>
              /\ op' = "index_mut"
              /\ arg'[1] \in 0..3
              /\ Quaternion_index(q1', arg'[1]) = arg'[2]
              /\ \A j \in 0..3 \ {arg'[1]} :
                    Quaternion_index(q1', j) = Quaternion_index(q1, j) ]_vars

C20_Witness ==
    /\ op = "conjugate"
    /\ q1 = [w |-> F(1), v |-> <<F(2), F(9), F(4)>>]
    /\ res = [w |-> F(1), v |-> <<F(-2), F(-9), F(-4)>>]

(***************************************************************************)
(* C21: q[0], q[1], q[2], q[3] are w, x, y, z for a read and for a write;  *)
(* an index of 4 or more panics in both, and is never clamped or wrapped   *)
(* onto a component (a panicking write leaves the quaternion as it was).   *)
(***************************************************************************)
C21_IndexBoundsChecked ==
    [][ /\ op' = "index" =>
              /\ arg'[1] = 0 => res' = q1.w
              /\ arg'[1] = 1 => res' = q1.v[1]
              /\ arg'[1] = 2 => res' = q1.v[2]
              /\ arg'[1] = 3 => res' = q1.v[3]
              /\ arg'[1] >= 4 => res' = Panicked
        /\ op' = "index_mut" =>
              /\ arg'[1] = 0 => q1' = [w |-> arg'[2], v |-> q1.v]
              /\ arg'[1] = 1 =>
                    q1' = [w |-> q1.w, v |-> <<arg'[2], q1.v[2], q1.v[3]>>]
              /\ arg'[1] = 2 =>
                    q1' = [w |-> q1.w, v |-> <<q1.v[1], arg'[2], q1.v[3]>>]
              /\ arg'[1] = 3 =>
                    q1' = [w |-> q1.w, v |-> <<q1.v[1], q1.v[2], arg'[2]>>]
              /\ arg'[1] >= 4 => (res' = Panicked /\ q1' = q1) ]_vars

C21_Witness ==
    /\ op = "index"
    /\ arg = <<4>>
    /\ q1 = QInt(1, 2, 3, 4)
    /\ res = Panicked

(***************************************************************************)
(* C22: sum and difference are component-wise on (w, x, y, z); for         *)
(* instance (1,[2,3,4]) + (1,[2,3,4]) = (2,[4,6,8]) and                    *)
(* (1,[2,3,4]) - (5,[6,7,8]) = (-4,[-4,-4,-4]).                            *)
(***************************************************************************)
C22_SumDifferenceComponentwise ==
    /\ op = "sum" =>
          /\ res.w = FAdd(q1.w, q2.w)
          /\ \A i \in 1..3 : res.v[i] = FAdd(q1.v[i], q2.v[i])
          /\ (q1 = QInt(1, 2, 3, 4) /\ q2 = QInt(1, 2, 3, 4)) =>
                res = QInt(2, 4, 6, 8)
    /\ op = "difference" =>
          /\ res.w = FSub(q1.w, q2.w)
          /\ \A i \in 1..3 : res.v[i] = FSub(q1.v[i], q2.v[i])
          /\ (q1 = QInt(1, 2, 3, 4) /\ q2 = QInt(5, 6, 7, 8)) =>
                res = QInt(-4, -4, -4, -4)

C22_Witness ==
    /\ op = "sum"
    /\ q1 = QInt(1, 2, 3, 4)
    /\ q2 = QInt(1, 2, 3, 4)
    /\ res = QInt(2, 4, 6, 8)

(***************************************************************************)
(* C23: conjugate keeps w and negates x, y and z, and the conjugate of the *)
(* conjugate is the quaternion itself.                                     *)
(***************************************************************************)
C23_ConjugateNegatesVector ==
    op = "conjugate" =>
        /\ res.w = q1.w
        /\ \A i \in 1..3 : res.v[i] = FNeg(q1.v[i])
        /\ Quaternion_eq(Quaternion_conjugate(res), q1)

C23_Witness ==
    /\ op = "conjugate"
    /\ q1 = QInt(1, 2, 3, 4)
    /\ res = QInt(1, -2, -3, -4)

(***************************************************************************)
(* C30: w^2 + |v|^2 of q1 * q2 is the product of w^2 + |v|^2 of q1 and of  *)
(* q2, so the product of two unit-norm quaternions has unit norm.          *)
(***************************************************************************)
C30_NormMultiplicative ==
    op = "product" =>
        /\ NormSquared(res) = FMul(NormSquared(q1), NormSquared(q2))
        /\ (IsUnit(q1) /\ IsUnit(q2)) =>
              (IsUnit(res) /\ Quaternion_norm(res) = F(1))

C30_Witness ==
    /\ op = "product"
    /\ q1 = QInt(1, 2, 3, 4)
    /\ q2 = QInt(5, 6, 7, 8)
    /\ NormSquared(res) = F(30 * 174)

(***************************************************************************)
(* C24: for every q with non-zero norm other than the identity,            *)
(* q.log().exp() equals q.                                                 *)
(***************************************************************************)
C24_ExpOfLogIsIdentityMap ==
    (op = "exp" /\ q1 # Zero /\ q1 # Quaternion_identity) =>
        Quaternion_eq(res, q1)

\* the matrix with rows (1,2,3), (4,5,6), (7,8,9)
M123 == Matrix3_new(F(1), F(2), F(3), F(4), F(5), F(6), F(7), F(8), F(9))

\* a * b + c * d + e * f on scalars
Sum3Products(a, b, c, d, e, f) == FAdd(FAdd(FMul(a, b), FMul(c, d)), FMul(e, f))

(***************************************************************************)
(* C25: Matrix3 multiplication is the row-by-column product,               *)
(* (a * b)[i][j] = sum over k of a[i][k] * b[k][j]; the square of the      *)
(* matrix with rows (1,2,3), (4,5,6), (7,8,9) has rows (30,36,42),         *)
(* (66,81,96), (102,126,150).                                              *)
(***************************************************************************)
C25_MulRowByColumn ==
    op = "matrix3_mul" =>
        /\ \A i, j \in 1..3 :
              res[i][j] = Sum3Products(mat[i][1], arg[1][1][j],
                                       mat[i][2], arg[1][2][j],
                                       mat[i][3], arg[1][3][j])
        /\ (mat = M123 /\ arg[1] = M123) =>
              res = Matrix3_new(F(30), F(36), F(42), F(66), F(81), F(96),
                                F(102), F(126), F(150))

C25_Witness ==
    /\ op = "matrix3_mul"
    /\ mat = M123
    /\ arg = <<M123>>
    /\ res = Matrix3_new(F(30), F(36), F(42), F(66), F(81), F(96),
                         F(102), F(126), F(150))

(***************************************************************************)
(* C26: for every matrix m with non-zero determinant, m * m.inverse() is   *)
(* the identity; for unit-norm q, the inverse of rotation_matrix(q) is its *)
(* transpose.                                                              *)
(***************************************************************************)
C26_InverseIsMultiplicativeInverse ==
    (op = "matrix3_inverse" /\ ~FEq(Matrix3_determinant(mat), F(0))) =>
        /\ Matrix3_mul(mat, res) = Matrix3_identity
        /\ (IsUnit(q1) /\ mat = Quaternion_rotation_matrix(q1)) =>
              res = Matrix3_transpose(mat)

(***************************************************************************)
(* C27: Matrix3 division is element-wise, (a / b)[i][j] = a[i][j] /        *)
(* b[i][j]; the matrix with rows (1,2,3), (4,5,6), (7,8,9) divided by      *)
(* itself is the all-ones matrix, which is not the matrix product.         *)
(***************************************************************************)
C27_DivElementwise ==
    op = "matrix3_div" =>
        /\ \A i, j \in 1..3 : res[i][j] = FDiv(mat[i][j], arg[1][i][j])
        /\ (mat = M123 /\ arg[1] = M123) =>
              /\ res = Matrix3_new(F(1), F(1), F(1), F(1), F(1), F(1),
                                   F(1), F(1), F(1))
              /\ res # Matrix3_mul(mat, arg[1])

(***************************************************************************)
(* C28: determinant is the cofactor expansion along the first row; it is 0 *)
(* for the matrix with rows (1,2,3), (4,5,6), (7,8,9), 1 for the identity, *)
(* and the determinant of the transpose is the determinant.                *)
(***************************************************************************)
C28_DeterminantCofactor ==
    op = "determinant" =>
        /\ res = FAdd(FSub(FMul(mat[1][1], FSub(FMul(mat[2][2], mat[3][3]),
                                                FMul(mat[2][3], mat[3][2]))),
                           FMul(mat[1][2], FSub(FMul(mat[2][1], mat[3][3]),
                                                FMul(mat[2][3], mat[3][1])))),
                      FMul(mat[1][3], FSub(FMul(mat[2][1], mat[3][2]),
                                           FMul(mat[2][2], mat[3][1]))))
        /\ mat = M123 => res = F(0)
        /\ mat = Matrix3_identity => res = F(1)
        /\ Matrix3_determinant(Matrix3_transpose(mat)) = res

C28_Witness ==
    /\ op = "determinant"
    /\ mat = Matrix3_new(F(2), F(0), F(1), F(1), F(3), F(0), F(0), F(1), F(1))
    /\ res = F(7)

(***************************************************************************)
(* C29: two Matrix4 values compare equal with == if and only if all 16     *)
(* components are equal, the fourth row included.                          *)
(***************************************************************************)
C29_Matrix4EqAllComponents ==
    op = "matrix4_eq" =>
        (res <=> \A i, j \in 1..4 : FEq(mat[i][j], arg[1][i][j]))

====
